---- MODULE Spec2Model ----
(***************************************************************************)
(* A model of the fhEVM SDK core: FhevmClient (core/FhevmClient.ts), the   *)
(* provider operations it calls (ethers provider, fhevmjs instance), and   *)
(* the retryWithBackoff utility documented in docs/api-reference.md.       *)
(*                                                                         *)
(* Numbers: TLC integers are 32 bits wide, so an input value of encrypt32  *)
(* or encrypt64 is kept as a sign and two limbs, magnitude hi * 2^16 + lo, *)
(* which represents 2^32 and its neighbours exactly.                       *)
(***************************************************************************)
EXTENDS Integers, Sequences, FiniteSets, TLC

VARIABLES
    config,       \* FhevmClient.config: the FhevmConfig given to the constructor
    instance,     \* FhevmClient.instance: the fhevmjs instance, or NoInstance (null)
    initialized,  \* FhevmClient.initialized
    pc,           \* per async caller: where its call of a client method stands
    frame,        \* per caller: the locals of its initialize() (chainId, createInstance call)
    result,       \* per caller: how its last call settled (resolved / rejected)
    calls,        \* the instrumented provider: how often each operation was invoked
    encrypted,    \* the instrumented provider: the values instance.encrypt32 was given,
                  \* each with the client method that passed it
    initSettled,  \* has any initialize() call settled yet
    swallowed,    \* per caller: provider errors its current call caught and dropped
    callLimit,    \* the instrumented provider: how many invocations it serves in a run
    prevOutcome,  \* the sequential script: how its previous call settled
    maxRetries,   \* retryWithBackoff: parameter maxRetries
    baseDelay,    \* retryWithBackoff: parameter baseDelay (ms)
    attemptNumber,\* retryWithBackoff: number of the current attempt, from 1
    rpc,          \* retryWithBackoff: "attempt", "sleep", "returned" or "thrown"
    delays,       \* retryWithBackoff: the delays slept so far, in order
    attemptErrors,\* retryWithBackoff: the error of each failed attempt, in order
    retOutcome,   \* retryWithBackoff: what the call returned or threw
    propConfig,   \* FhevmProvider: the config object its parent passed at the last render
    configsMade,  \* how many config objects the parent has created so far
    mounted,      \* FhevmProvider: has its effect run for the first render
    runs,         \* FhevmProvider: the init() task of each effect run, in order
    ctxClient,    \* FhevmProvider state `client`: the run whose client it holds, or NoClient
    ctxIsInitialized, \* FhevmProvider state `isInitialized`
    ctxError,     \* FhevmProvider state `error`, or NoError (null)
    hookCall,     \* per hook call: its callback, who awaits it, where it stands, its result
    bid,          \* useEncryptedBid: where the encryptBid call stands, and its result
    isEncrypting, \* useEncrypt state `isEncrypting`
    encryptError, \* useEncrypt state `error`
    isDecrypting, \* useDecrypt state `isDecrypting`
    decryptError, \* useDecrypt state `error`
    isProcessing, \* useEncryptedBid state `isProcessing`
    bidError,     \* useEncryptedBid state `error`
    owner,        \* contract: address public owner
    projectCount, \* contract: uint256 public projectCount
    projects,     \* contract: mapping(uint256 => Project) projects
    bids,         \* contract: mapping(uint256 => mapping(address => PrivateBid)) bids,
                  \* each bid with the bidAmount and completionTime it was submitted with
    authorizedContractors, \* contract: mapping(address => bool) authorizedContractors
    now,          \* block.timestamp
    tx            \* the last call of the contract: function, sender, arguments, outcome

clientVars == <<config, instance, initialized, pc, frame, result, calls,
                encrypted, initSettled, swallowed>>
retryVars == <<maxRetries, baseDelay, attemptNumber, rpc, delays, attemptErrors,
               retOutcome>>
scriptVars == <<callLimit, prevOutcome>>
providerVars == <<propConfig, configsMade, mounted, runs, ctxClient,
                  ctxIsInitialized, ctxError>>
hookVars == <<hookCall, bid, isEncrypting, encryptError, isDecrypting, decryptError,
              isProcessing, bidError>>
reactVars == <<providerVars, hookVars>>
biddingVars == <<owner, projectCount, projects, bids, authorizedContractors, now, tx>>
vars == <<clientVars, retryVars, scriptVars, reactVars, biddingVars>>

----------------------------------------------------------------------------
(* Bounds of the model *)

\* number of concurrent async callers of one FhevmClient
NumCallers == 2
\* provider calls made over a run
MaxCalls == 4
\* largest maxRetries a retried call is given
MaxMaxRetries == 3
\* provider calls made over a run of the sequential script
MaxScriptCalls == 6
\* config objects the parent of a FhevmProvider creates over a run
MaxConfigs == 3
\* provider calls made over a run of the hooks
MaxHookCalls == 5
\* provider calls made over a run of concurrent initialize() calls
MaxRaceCalls == 6
\* the last block time of a run of the bidding contract
MaxTime == 2

Callers == 1..NumCallers

----------------------------------------------------------------------------
(* Values *)

Limb == 2^16

\* the value hi * 2^16 + lo, negated when neg
Val(neg, hi, lo) == [neg |-> neg, hi |-> hi, lo |-> lo]

\* 0 <= v < 2^32
IsUint32(v) == ~v.neg /\ v.hi < Limb

\* inputs of encrypt32 / encrypt64: -1, 0, 2^32 - 1, 2^32
InputValues ==
    { Val(TRUE, 0, 1), Val(FALSE, 0, 0),
      Val(FALSE, Limb - 1, Limb - 1), Val(FALSE, Limb, 0) }

Networks == {"sepolia", "localhost", "mainnet"}

SepoliaChainId == 11155111
LocalhostChainId == 31337
MainnetChainId == 1

\* the chain identifiers the ledger provider reports here
ChainIds == {SepoliaChainId, MainnetChainId}

\* the chain identifier of each FhevmConfig.network
ExpectedChainId(network) ==
    CASE network = "sepolia" -> SepoliaChainId
      [] network = "localhost" -> LocalhostChainId
      [] network = "mainnet" -> MainnetChainId

\* errors the provider's operations reject or throw with
ProviderErrors ==
    { [name |-> "Error", message |-> "network error"],
      [name |-> "TimeoutError", message |-> "timeout"] }

\* `${error}` of a template literal: String(error) is "name: message"
ErrorToString(e) == <<e.name, ": ", e.message>>

\* new Error(`prefix${error}`)
WrappedError(prefix, e) == [name |-> "Error", message |-> <<prefix>> \o ErrorToString(e)]

\* new Error(message)
PlainError(message) == [name |-> "Error", message |-> <<message>>]

NotInitializedError == PlainError("FhevmClient not initialized. Call initialize() first.")
SignatureNotInitializedError == PlainError("FhevmClient not initialized")

NoInstance == [id |-> 0]
NoResult == [op |-> "none"]

\* null, where a React state holds a client / an error
NoClient == 0
NoError == [name |-> "null", message |-> <<>>]
Null == [null |-> TRUE]

\* a hook callback that has not returned
NoReturn == [kind |-> "none"]

\* accounts that call the bidding contract, and address(0)
Accounts == {"0xD0", "0xA1", "0xB2"}
ZeroAddress == "0x00"
ThisContract == "this"

\* the deployer: msg.sender of the constructor
Deployer == "0xD0"


\* the addresses the owner is asked to authorize or revoke
Contractors == {"0xA1", "0xB2"}

\* the project identifiers of a run: the first createProject makes project 1,
\* and the model has room for no other
ProjectIds == {1}

Zero == Val(FALSE, 0, 0)

\* FHE.asEuint32(x), before any FHE.allow
AsEuint32(x) == [plain |-> x, allowed |-> {}]

\* the zero value of struct Project and of struct PrivateBid
EmptyProject ==
    [name |-> "", creator |-> ZeroAddress, maxBudget |-> Zero, deadline |-> 0,
     biddingEndTime |-> 0, isActive |-> FALSE, biddingClosed |-> FALSE,
     bidders |-> <<>>, winner |-> ZeroAddress, winningAmount |-> Zero]
EmptyBid ==
    [encryptedAmount |-> AsEuint32(Zero), encryptedCompletionTime |-> AsEuint32(Zero),
     proposal |-> "", submitted |-> FALSE, timestamp |-> 0,
     bidAmount |-> Zero, completionTime |-> Zero]

\* no call of the contract yet
NoTx == [fn |-> "none", sender |-> ZeroAddress, project |-> 0, who |-> ZeroAddress,
         ok |-> FALSE]

\* a hook call slot nobody uses, and no encryptBid call
NoHookCall == [op |-> "none", by |-> "none", pc |-> "idle", ret |-> NoReturn]
NoBid == [pc |-> "idle", second |-> Val(FALSE, 0, 0), ret |-> NoReturn]

\* the value of a Promise<void>
Void == [void |-> TRUE]

Resolved(op, value) == [op |-> op, status |-> "ok", value |-> value]
Rejected(op, error) == [op |-> op, status |-> "err", error |-> error]

ProviderOps == {"getNetwork", "getCode", "createInstance", "encrypt32", "generateToken"}

TotalCalls ==
    calls["getNetwork"] + calls["getCode"] + calls["createInstance"]
        + calls["encrypt32"] + calls["generateToken"]

\* one more invocation of provider operation op
Invoke(op) ==
    /\ TotalCalls < callLimit
    /\ calls' = [calls EXCEPT ![op] = @ + 1]

InitPcs == {"getNetwork", "getCode", "createInstance"}

----------------------------------------------------------------------------
(* FhevmClient *)

NoFrame == [chainId |-> 0, publicKey |-> "", createNo |-> 0]

\* the caller's promise settles with outcome r
Settle(c, r) ==
    /\ pc' = [pc EXCEPT ![c] = "done"]
    /\ result' = [result EXCEPT ![c] = r]

\* Number(x) of a bigint x: exact below 2^53, which every value drawn here is
NumberOf(x) == x

\* how provider.getCode(aclAddress) settles: with the code at the address
\* ("0x" when there is none), or with a provider error
GetCodeOutcomes ==
    [kind : {"code"}, code : {"0x", "0x60"}] \cup [kind : {"error"}, error : ProviderErrors]

\* getPublicKey(): what it returns once getCode has settled with outcome
GetPublicKey(outcome) == "0x"

\* what getPublicKey() catches and drops for a settled getCode
GetPublicKeyCaught(outcome) ==
    IF outcome.kind = "error" THEN {outcome.error}
    ELSE IF outcome.code = "0x" THEN {PlainError("ACL contract not found")}
    ELSE {}

\* initialize() without its early return
InitializeReturnsEarly_Never == FALSE

\* initialize() returning early once any attempt has settled
InitializeReturnsEarly_OnceAttempted == initialized \/ initSettled

\* the guard of initialize(): TRUE when the call returns at once
InitializeReturnsEarly == initialized

\* initialize(), up to its first await: provider.getNetwork()
InitializeCall(c) ==
    /\ pc[c] = "idle"
    /\ IF InitializeReturnsEarly
         THEN /\ Settle(c, Resolved("initialize", Void))
              /\ initSettled' = TRUE
              /\ UNCHANGED <<calls, frame, swallowed>>
         ELSE /\ Invoke("getNetwork")
              /\ pc' = [pc EXCEPT ![c] = "getNetwork"]
              /\ frame' = [frame EXCEPT ![c] = NoFrame]
              /\ swallowed' = [swallowed EXCEPT ![c] = {}]
              /\ UNCHANGED <<result, initSettled>>
    /\ UNCHANGED <<config, instance, initialized, encrypted>>

\* getNetwork() resolves with chain id: initialize() goes on into getPublicKey(),
\* up to its await of provider.getCode(aclAddress)
GetNetworkResolve(c, id) ==
    /\ pc[c] = "getNetwork"
    /\ Invoke("getCode")
    /\ frame' = [frame EXCEPT ![c].chainId = id]
    /\ pc' = [pc EXCEPT ![c] = "getCode"]
    /\ UNCHANGED <<config, instance, initialized, result, encrypted, initSettled, swallowed>>

\* the wrapped error initialize() throws from its catch
InitializeError(e) == WrappedError("Failed to initialize fhEVM: ", e)

\* a catch that also resets the client
InitializeReject_ResetsClient(c, e) ==
    /\ Settle(c, Rejected("initialize", InitializeError(e)))
    /\ frame' = [frame EXCEPT ![c] = NoFrame]
    /\ initSettled' = TRUE
    /\ initialized' = FALSE
    /\ instance' = NoInstance
    /\ UNCHANGED <<config, calls, encrypted, swallowed>>

\* a provider call awaited directly in initialize()'s try rejects with e
InitializeReject(c, e) ==
    /\ Settle(c, Rejected("initialize", InitializeError(e)))
    /\ frame' = [frame EXCEPT ![c] = NoFrame]
    /\ initSettled' = TRUE
    /\ UNCHANGED <<config, instance, initialized, calls, encrypted, swallowed>>

GetNetworkReject(c, e) ==
    /\ pc[c] = "getNetwork"
    /\ InitializeReject(c, e)

\* getCode() settles (a code string, or an error): getPublicKey() returns its
\* placeholder either way, and initialize() calls createInstance
GetCodeSettle(c, outcome) ==
    /\ pc[c] = "getCode"
    /\ Invoke("createInstance")
    /\ swallowed' = [swallowed EXCEPT ![c] = @ \cup GetPublicKeyCaught(outcome)]
    /\ frame' = [frame EXCEPT ![c].publicKey = GetPublicKey(outcome),
                              ![c].createNo = calls["createInstance"] + 1]
    /\ pc' = [pc EXCEPT ![c] = "createInstance"]
    /\ UNCHANGED <<config, instance, initialized, result, encrypted, initSettled>>

\* the fhevmjs instance createInstance resolves with for the caller's arguments
CreatedInstance(c) ==
    [id |-> frame[c].createNo,
     chainId |-> NumberOf(frame[c].chainId),
     publicKey |-> frame[c].publicKey,
     gatewayUrl |-> config.gatewayUrl]

\* createInstance resolves: lines 31 and 37 run without a further await
CreateInstanceResolve(c) ==
    /\ pc[c] = "createInstance"
    /\ instance' = CreatedInstance(c)
    /\ initialized' = TRUE
    /\ Settle(c, Resolved("initialize", Void))
    /\ frame' = [frame EXCEPT ![c] = NoFrame]
    /\ initSettled' = TRUE
    /\ UNCHANGED <<config, calls, encrypted, swallowed>>

CreateInstanceReject(c, e) ==
    /\ pc[c] = "createInstance"
    /\ InitializeReject(c, e)

\* the guard left out
NotReady_GuardDropped == FALSE

\* the guard shared by encrypt32, encrypt64 and createDecryptionSignature
NotReady == ~initialized \/ instance = NoInstance

\* what instance.encrypt32(v) returns when it does not throw
Ciphertext(v) == [instance |-> instance.id, plain |-> v]

\* the body of encrypt32 / encrypt64 after the guard: one call of
\* instance.encrypt32(v), which returns or throws
EncryptBody(c, op, v) ==
    /\ Invoke("encrypt32")
    /\ encrypted' = encrypted \cup {[method |-> op, value |-> v]}
    /\ \/ Settle(c, Resolved(op, [data |-> Ciphertext(v), handles |-> <<>>]))
       \/ \E e \in ProviderErrors :
             Settle(c, Rejected(op, WrappedError("Failed to encrypt value: ", e)))

\* an encrypt32 whose catch marks the client as not initialized
Encrypt32_ResetsOnError(c, v) ==
    /\ pc[c] = "idle"
    /\ IF NotReady
         THEN /\ Settle(c, Rejected("encrypt32", NotInitializedError))
              /\ UNCHANGED <<calls, encrypted, initialized>>
         ELSE /\ EncryptBody(c, "encrypt32", v)
              /\ initialized' = (result'[c].status = "ok")
    /\ UNCHANGED <<config, instance, frame, initSettled, swallowed>>

\* encrypt32(value): no await inside, so the call is one step
Encrypt32(c, v) ==
    /\ pc[c] = "idle"
    /\ IF NotReady
         THEN Settle(c, Rejected("encrypt32", NotInitializedError))
              /\ UNCHANGED <<calls, encrypted>>
         ELSE EncryptBody(c, "encrypt32", v)
    /\ UNCHANGED <<config, instance, initialized, frame, initSettled, swallowed>>

\* encrypt64(value): instance.encrypt32(Number(value))
Encrypt64(c, v) ==
    /\ pc[c] = "idle"
    /\ IF NotReady
         THEN Settle(c, Rejected("encrypt64", NotInitializedError))
              /\ UNCHANGED <<calls, encrypted>>
         ELSE EncryptBody(c, "encrypt64", NumberOf(v))
    /\ UNCHANGED <<config, instance, initialized, frame, initSettled, swallowed>>

Contracts == {"0xC0"}
Users == {"0xA1"}

\* createDecryptionSignature as called by op (itself, or requestDecryption)
SignatureBody(c, op, contractAddress) ==
    IF NotReady
      THEN Settle(c, Rejected(op, SignatureNotInitializedError)) /\ UNCHANGED calls
      ELSE /\ Invoke("generateToken")
           /\ \/ Settle(c, Resolved(op, [token |-> contractAddress, by |-> instance.id]))
              \/ \E e \in ProviderErrors :
                    Settle(c, Rejected(op, WrappedError("Failed to create signature: ", e)))

CreateDecryptionSignature(c, contractAddress, userAddress) ==
    /\ pc[c] = "idle"
    /\ SignatureBody(c, "createDecryptionSignature", contractAddress)
    /\ UNCHANGED <<config, instance, initialized, frame, encrypted, initSettled, swallowed>>

\* requestDecryption(request): awaits createDecryptionSignature and returns it
RequestDecryption(c, request) ==
    /\ pc[c] = "idle"
    /\ SignatureBody(c, "requestDecryption", request.contractAddress)
    /\ UNCHANGED <<config, instance, initialized, frame, encrypted, initSettled, swallowed>>

\* the caller takes the settled outcome and is free to call again
Return(c) ==
    /\ pc[c] = "done"
    /\ pc' = [pc EXCEPT ![c] = "idle"]
    /\ result' = [result EXCEPT ![c] = NoResult]
    /\ swallowed' = [swallowed EXCEPT ![c] = {}]
    /\ UNCHANGED <<config, instance, initialized, frame, calls, encrypted, initSettled>>

\* new FhevmClient(config)
ClientInit ==
    /\ config \in [network : Networks, gatewayUrl : {"undefined"}]
    /\ instance = NoInstance
    /\ initialized = FALSE
    /\ pc = [c \in Callers |-> "idle"]
    /\ frame = [c \in Callers |-> NoFrame]
    /\ result = [c \in Callers |-> NoResult]
    /\ calls = [op \in ProviderOps |-> 0]
    /\ encrypted = {}
    /\ initSettled = FALSE
    /\ swallowed = [c \in Callers |-> {}]

\* the requests requestDecryption is given
Requests == [contractAddress : Contracts, handle : {0}, userAddress : Users]

\* no retried call is running
RetryIdle ==
    /\ maxRetries = 0
    /\ baseDelay = 0
    /\ attemptNumber = 0
    /\ rpc = "idle"
    /\ delays = <<>>
    /\ attemptErrors = <<>>
    /\ retOutcome = NoResult

\* no script is running: the callers are concurrent tasks
ScriptIdle ==
    /\ callLimit = MaxCalls
    /\ prevOutcome = NoResult

\* no FhevmProvider is rendered
ProviderIdle ==
    /\ propConfig = [id |-> 1, network |-> "sepolia"]
    /\ configsMade = 1
    /\ mounted = FALSE
    /\ runs = <<>>
    /\ ctxClient = NoClient
    /\ ctxIsInitialized = FALSE
    /\ ctxError = NoError

\* no hook callback is running
HooksIdle ==
    /\ hookCall = [h \in Callers |-> NoHookCall]
    /\ bid = NoBid
    /\ isEncrypting = FALSE
    /\ encryptError = NoError
    /\ isDecrypting = FALSE
    /\ decryptError = NoError
    /\ isProcessing = FALSE
    /\ bidError = NoError

ReactIdle == ProviderIdle /\ HooksIdle

\* the bidding contract as its constructor leaves it: storage is zero but
\* for owner
BiddingInit ==
    /\ owner = Deployer
    /\ projectCount = 0
    /\ projects = [p \in ProjectIds |-> EmptyProject]
    /\ bids = [p \in ProjectIds |-> [a \in Accounts |-> EmptyBid]]
    /\ authorizedContractors = [a \in Accounts |-> FALSE]
    /\ now = 0
    /\ tx = NoTx

Init == ClientInit /\ RetryIdle /\ ScriptIdle /\ ReactIdle /\ BiddingInit

Next ==
    \/ \E c \in Callers : InitializeCall(c) /\ UNCHANGED <<retryVars, scriptVars, reactVars, biddingVars>>
    \/ \E c \in Callers, id \in ChainIds :
          GetNetworkResolve(c, id) /\ UNCHANGED <<retryVars, scriptVars, reactVars, biddingVars>>
    \/ \E c \in Callers, e \in ProviderErrors :
          GetNetworkReject(c, e) /\ UNCHANGED <<retryVars, scriptVars, reactVars, biddingVars>>
    \/ \E c \in Callers, outcome \in GetCodeOutcomes :
          GetCodeSettle(c, outcome) /\ UNCHANGED <<retryVars, scriptVars, reactVars, biddingVars>>
    \/ \E c \in Callers : CreateInstanceResolve(c) /\ UNCHANGED <<retryVars, scriptVars, reactVars, biddingVars>>
    \/ \E c \in Callers, e \in ProviderErrors :
          CreateInstanceReject(c, e) /\ UNCHANGED <<retryVars, scriptVars, reactVars, biddingVars>>
    \/ \E c \in Callers, v \in InputValues : Encrypt32(c, v) /\ UNCHANGED <<retryVars, scriptVars, reactVars, biddingVars>>
    \/ \E c \in Callers, v \in InputValues : Encrypt64(c, v) /\ UNCHANGED <<retryVars, scriptVars, reactVars, biddingVars>>
    \/ \E c \in Callers, a \in Contracts, u \in Users :
          CreateDecryptionSignature(c, a, u) /\ UNCHANGED <<retryVars, scriptVars, reactVars, biddingVars>>
    \/ \E c \in Callers, r \in Requests : RequestDecryption(c, r) /\ UNCHANGED <<retryVars, scriptVars, reactVars, biddingVars>>
    \/ \E c \in Callers : Return(c) /\ UNCHANGED <<retryVars, scriptVars, reactVars, biddingVars>>

Spec == Init /\ [][Next]_vars

----------------------------------------------------------------------------
(* A sequential script: one caller that awaits each call before the next *)

Script == 1

\* the script runs against a provider that serves MaxScriptCalls invocations
ScriptInit ==
    /\ callLimit = MaxScriptCalls
    /\ prevOutcome = NoResult

\* the awaited call has settled: the script goes on to its next statement
ScriptReturn ==
    /\ Return(Script)
    /\ prevOutcome' = result[Script]
    /\ UNCHANGED callLimit

InitSequential == ClientInit /\ RetryIdle /\ ScriptInit /\ ReactIdle /\ BiddingInit

NextSequential ==
    \/ InitializeCall(Script) /\ UNCHANGED <<retryVars, scriptVars, reactVars, biddingVars>>
    \/ \E id \in ChainIds :
          GetNetworkResolve(Script, id) /\ UNCHANGED <<retryVars, scriptVars, reactVars, biddingVars>>
    \/ \E e \in ProviderErrors :
          GetNetworkReject(Script, e) /\ UNCHANGED <<retryVars, scriptVars, reactVars, biddingVars>>
    \/ \E outcome \in GetCodeOutcomes :
          GetCodeSettle(Script, outcome) /\ UNCHANGED <<retryVars, scriptVars, reactVars, biddingVars>>
    \/ CreateInstanceResolve(Script) /\ UNCHANGED <<retryVars, scriptVars, reactVars, biddingVars>>
    \/ \E e \in ProviderErrors :
          CreateInstanceReject(Script, e) /\ UNCHANGED <<retryVars, scriptVars, reactVars, biddingVars>>
    \/ \E v \in InputValues : Encrypt32(Script, v) /\ UNCHANGED <<retryVars, scriptVars, reactVars, biddingVars>>
    \/ \E v \in InputValues : Encrypt64(Script, v) /\ UNCHANGED <<retryVars, scriptVars, reactVars, biddingVars>>
    \/ \E a \in Contracts, u \in Users :
          CreateDecryptionSignature(Script, a, u) /\ UNCHANGED <<retryVars, scriptVars, reactVars, biddingVars>>
    \/ \E r \in Requests :
          RequestDecryption(Script, r) /\ UNCHANGED <<retryVars, scriptVars, reactVars, biddingVars>>
    \/ ScriptReturn /\ UNCHANGED <<retryVars, reactVars, biddingVars>>

SpecSequential == InitSequential /\ [][NextSequential]_vars

----------------------------------------------------------------------------
(* retryWithBackoff(fn, maxRetries = 3, baseDelay = 1000) *)

DefaultMaxRetries == 3
DefaultBaseDelay == 1000

\* the base delays a retried call is given (ms)
BaseDelays == {1, 250, DefaultBaseDelay}

\* what fn resolves with
FnValues == {"ciphertext", "token"}

\* exhaustion signalled one attempt early
RetryExhausted_OffByOne(n, m) == n >= m

\* the policy signals exhaustion after failed attempt n
RetryExhausted(n, m) == n > m

\* a delay that grows linearly
BackoffDelay_Linear(d, n) == d * n

\* the delay after failed attempt n, before attempt n + 1
BackoffDelay(d, n) == d * 2^(n - 1)

\* the first retry made at once, without a delay
DelaysAfterFailure_FirstRetryAtOnce(ds, d, n) ==
    IF n = 1 THEN ds ELSE Append(ds, d * 2^(n - 1))

\* the delays slept so far, once failed attempt n is followed by a retry
DelaysAfterFailure(ds, d, n) == Append(ds, BackoffDelay(d, n))

\* the error the call throws on exhaustion, given the errors of its attempts
ExhaustionError(errors) == errors[Len(errors)]

\* retryWithBackoff(fn, m, d) is called: attempt 1 starts at once
RetryCall(m, d) ==
    /\ rpc = "idle"
    /\ maxRetries' = m
    /\ baseDelay' = d
    /\ attemptNumber' = 1
    /\ rpc' = "attempt"
    /\ UNCHANGED <<delays, attemptErrors, retOutcome>>

\* the current attempt's fn() resolves with v
AttemptSucceeds(v) ==
    /\ rpc = "attempt"
    /\ rpc' = "returned"
    /\ retOutcome' = Resolved("retryWithBackoff", [fn |-> v])
    /\ UNCHANGED <<maxRetries, baseDelay, attemptNumber, delays, attemptErrors>>

\* the current attempt's fn() rejects with e
AttemptFails(e) ==
    /\ rpc = "attempt"
    /\ attemptErrors' = Append(attemptErrors, e)
    /\ IF RetryExhausted(attemptNumber, maxRetries)
         THEN /\ rpc' = "thrown"
              /\ retOutcome' = Rejected("retryWithBackoff", ExhaustionError(attemptErrors'))
              /\ UNCHANGED delays
         ELSE /\ rpc' = "sleep"
              /\ delays' = DelaysAfterFailure(delays, baseDelay, attemptNumber)
              /\ UNCHANGED retOutcome
    /\ UNCHANGED <<maxRetries, baseDelay, attemptNumber>>

\* the sleep ends: the next attempt starts
Wake ==
    /\ rpc = "sleep"
    /\ attemptNumber' = attemptNumber + 1
    /\ rpc' = "attempt"
    /\ UNCHANGED <<maxRetries, baseDelay, delays, attemptErrors, retOutcome>>


\* a client nobody calls
ClientIdle ==
    /\ ClientInit
    /\ config.network = "sepolia"

InitRetry == ClientIdle /\ RetryIdle /\ ScriptIdle /\ ReactIdle /\ BiddingInit

NextRetry ==
    \/ \E m \in 0..MaxMaxRetries, d \in BaseDelays :
          RetryCall(m, d) /\ UNCHANGED <<clientVars, scriptVars, reactVars, biddingVars>>
    \/ \E v \in FnValues : AttemptSucceeds(v) /\ UNCHANGED <<clientVars, scriptVars, reactVars, biddingVars>>
    \/ \E e \in ProviderErrors : AttemptFails(e) /\ UNCHANGED <<clientVars, scriptVars, reactVars, biddingVars>>
    \/ Wake /\ UNCHANGED <<clientVars, scriptVars, reactVars, biddingVars>>

SpecRetry == InitRetry /\ [][NextRetry]_vars

----------------------------------------------------------------------------
(* Concurrent initialize() calls on one client, each with the provider     *)
(* calls to run to its end, followed by encrypt32 calls                    *)

\* the value encrypt32 is given after the initializations
RaceValues == { Val(FALSE, 0, 1) }

InitRace ==
    /\ ClientIdle
    /\ RetryIdle
    /\ callLimit = MaxRaceCalls
    /\ prevOutcome = NoResult
    /\ ReactIdle
    /\ BiddingInit

NextRace ==
    \/ \E c \in Callers : InitializeCall(c) /\ UNCHANGED <<retryVars, scriptVars, reactVars, biddingVars>>
    \/ \E c \in Callers, id \in ChainIds :
          GetNetworkResolve(c, id) /\ UNCHANGED <<retryVars, scriptVars, reactVars, biddingVars>>
    \/ \E c \in Callers, e \in ProviderErrors :
          GetNetworkReject(c, e) /\ UNCHANGED <<retryVars, scriptVars, reactVars, biddingVars>>
    \/ \E c \in Callers, outcome \in GetCodeOutcomes :
          GetCodeSettle(c, outcome) /\ UNCHANGED <<retryVars, scriptVars, reactVars, biddingVars>>
    \/ \E c \in Callers : CreateInstanceResolve(c) /\ UNCHANGED <<retryVars, scriptVars, reactVars, biddingVars>>
    \/ \E c \in Callers, e \in ProviderErrors :
          CreateInstanceReject(c, e) /\ UNCHANGED <<retryVars, scriptVars, reactVars, biddingVars>>
    \/ \E c \in Callers, v \in RaceValues :
          Encrypt32(c, v) /\ UNCHANGED <<retryVars, scriptVars, reactVars, biddingVars>>
    \/ \E c \in Callers : Return(c) /\ UNCHANGED <<retryVars, scriptVars, reactVars, biddingVars>>

SpecRace == InitRace /\ [][NextRace]_vars

----------------------------------------------------------------------------
(* FhevmProvider (hooks/useFhevm.ts): the React state client /             *)
(* isInitialized / error, and the effect keyed on [config] whose init()    *)
(* makes a client and awaits its initialize().  A state update made after  *)
(* the await is taken with the updates made beside it (React batches them).*)

\* a config object: a React effect compares its dependencies by identity
\* (Object.is), so an object carries an identity besides its content
ConfigObject(id, network) == [id |-> id, network |-> network]

\* do the dependencies [config] of the effect differ between two renders
DepsChanged(old, new) == old.id # new.id

\* the effect: init() runs up to its await of fhevmClient.initialize(), on
\* the client createFhevmClient(cfg) has just made
StartInit(cfg) == runs' = Append(runs, [config |-> cfg, state |-> "pending"])

\* the first render and its effect
Mount ==
    /\ ~mounted
    /\ mounted' = TRUE
    /\ StartInit(propConfig)
    /\ UNCHANGED <<propConfig, configsMade, ctxClient, ctxIsInitialized, ctxError>>

\* the config objects the parent can pass at its next render: the one it
\* passed before, or a new object literal with any content
NextConfigs ==
    {propConfig} \cup
        (IF configsMade < MaxConfigs
            THEN {ConfigObject(configsMade + 1, n) : n \in Networks}
            ELSE {})

\* the parent renders again and passes cfg; the effect runs when [config] changed
Rerender(cfg) ==
    /\ mounted
    /\ propConfig' = cfg
    /\ configsMade' = IF cfg.id > configsMade THEN cfg.id ELSE configsMade
    /\ IF DepsChanged(propConfig, cfg) THEN StartInit(cfg) ELSE UNCHANGED runs
    /\ UNCHANGED <<mounted, ctxClient, ctxIsInitialized, ctxError>>

\* await fhevmClient.initialize() of run r resolves: setClient, setIsInitialized(true)
InitResolve(r) ==
    /\ r \in DOMAIN runs
    /\ runs[r].state = "pending"
    /\ runs' = [runs EXCEPT ![r].state = "ready"]
    /\ ctxClient' = r
    /\ ctxIsInitialized' = TRUE
    /\ UNCHANGED <<propConfig, configsMade, mounted, ctxError>>

\* await fhevmClient.initialize() of run r rejects with e: setError(err)
InitReject(r, e) ==
    /\ r \in DOMAIN runs
    /\ runs[r].state = "pending"
    /\ runs' = [runs EXCEPT ![r].state = "failed"]
    /\ ctxError' = e
    /\ UNCHANGED <<propConfig, configsMade, mounted, ctxClient, ctxIsInitialized>>

\* <FhevmProvider config={...}> before its first render
ProviderInit ==
    /\ propConfig \in {ConfigObject(1, n) : n \in Networks}
    /\ configsMade = 1
    /\ mounted = FALSE
    /\ runs = <<>>
    /\ ctxClient = NoClient
    /\ ctxIsInitialized = FALSE
    /\ ctxError = NoError

InitProvider ==
    ClientIdle /\ RetryIdle /\ ScriptIdle /\ ProviderInit /\ HooksIdle /\ BiddingInit

NextProvider ==
    \/ Mount /\ UNCHANGED <<clientVars, retryVars, scriptVars, hookVars, biddingVars>>
    \/ \E cfg \in NextConfigs : Rerender(cfg) /\ UNCHANGED <<clientVars, retryVars, scriptVars, hookVars, biddingVars>>
    \/ \E r \in 1..MaxConfigs : InitResolve(r) /\ UNCHANGED <<clientVars, retryVars, scriptVars, hookVars, biddingVars>>
    \/ \E r \in 1..MaxConfigs, e \in ProviderErrors :
          InitReject(r, InitializeError(e)) /\ UNCHANGED <<clientVars, retryVars, scriptVars, hookVars, biddingVars>>

SpecProvider == InitProvider /\ [][NextProvider]_vars

----------------------------------------------------------------------------
(* useEncrypt, useDecrypt and useEncryptedBid (hooks/useFhevm.ts) over the *)
(* client a FhevmProvider has put in its context.  A hook callback runs    *)
(* up to its await of the client method in one step and resumes in a later *)
(* one; hook call h uses caller h of the client.                           *)

\* what a hook callback returned or threw
Returned(value) == [kind |-> "returned", value |-> value]
Thrown(error) == [kind |-> "thrown", error |-> error]

HookOps == {"encrypt32", "encrypt64", "createSignature"}

\* the values hook callbacks are given: 0 and 2^32
HookValues == { Val(FALSE, 0, 0), Val(FALSE, Limb, 0) }

\* if (!isInitialized || !client)
ContextNotReady == ~ctxIsInitialized \/ ctxClient = NoClient

\* setIsEncrypting(b) of useEncrypt, setIsDecrypting(b) of useDecrypt
SetBusy(op, b) ==
    IF op = "createSignature"
      THEN isDecrypting' = b /\ UNCHANGED isEncrypting
      ELSE isEncrypting' = b /\ UNCHANGED isDecrypting

\* setError(e) of useEncrypt or of useDecrypt
SetHookError(op, e) ==
    IF op = "createSignature"
      THEN decryptError' = e /\ UNCHANGED encryptError
      ELSE encryptError' = e /\ UNCHANGED decryptError

\* the client method callback op awaits, called by hook call h
ClientCall(h, op, arg) ==
    CASE op = "encrypt32" -> Encrypt32(h, arg)
      [] op = "encrypt64" -> Encrypt64(h, arg)
      [] op = "createSignature" ->
            \E a \in Contracts, u \in Users : CreateDecryptionSignature(h, a, u)

\* encrypt32 / encrypt64 of useEncrypt, createSignature of useDecrypt, up to
\* the await of the client method; `by` is who awaits the callback
HookCall(h, op, arg, by) ==
    /\ hookCall[h].pc = "idle"
    /\ pc[h] = "idle"
    /\ IF ContextNotReady
         THEN /\ SetHookError(op, PlainError("fhEVM not initialized"))
              /\ hookCall' = [hookCall EXCEPT ![h] =
                     [op |-> op, by |-> by, pc |-> "done", ret |-> Returned(Null)]]
              /\ UNCHANGED <<isEncrypting, isDecrypting, clientVars>>
         ELSE /\ SetBusy(op, TRUE)
              /\ SetHookError(op, NoError)
              /\ ClientCall(h, op, arg)
              /\ hookCall' = [hookCall EXCEPT ![h] =
                     [op |-> op, by |-> by, pc |-> "awaiting", ret |-> NoReturn]]

\* a callback without its catch
HookOutcome_Rethrows(r) ==
    IF r.status = "ok" THEN Returned(r.value) ELSE Thrown(r.error)

\* try { return await client.op(..) } catch (err) { ..; return null }
HookOutcome(r) ==
    IF r.status = "ok" THEN Returned(r.value) ELSE Returned(Null)

\* the awaited client method has settled: return or catch, then finally
HookResume(h) ==
    /\ hookCall[h].pc = "awaiting"
    /\ hookCall' = [hookCall EXCEPT ![h].pc = "done", ![h].ret = HookOutcome(result[h])]
    /\ IF result[h].status = "ok"
         THEN UNCHANGED <<encryptError, decryptError>>
         ELSE SetHookError(hookCall[h].op, result[h].error)
    /\ SetBusy(hookCall[h].op, FALSE)
    /\ Return(h)

\* the component that called the callback takes what it returned
HookTake(h) ==
    /\ hookCall[h].pc = "done"
    /\ hookCall[h].by = "component"
    /\ hookCall' = [hookCall EXCEPT ![h] = NoHookCall]
    /\ UNCHANGED <<isEncrypting, encryptError, isDecrypting, decryptError, clientVars>>

\* the two hook calls encryptBid makes
BidAmountCall == 1
BidTimeCall == 2

\* encryptBid(bidAmount, completionTime) up to the first encrypt32 of its
\* Promise.all; the instrumented provider has two invocations left to serve
BidCall(bidAmount, completionTime) ==
    /\ bid.pc = "idle"
    /\ hookCall[BidTimeCall].pc = "idle"
    /\ pc[BidTimeCall] = "idle"
    /\ TotalCalls + 2 <= callLimit
    /\ isProcessing' = TRUE
    /\ bidError' = NoError
    /\ bid' = [pc |-> "starting", second |-> completionTime, ret |-> NoReturn]
    /\ HookCall(BidAmountCall, "encrypt32", bidAmount, "bid")

\* the second encrypt32 of the Promise.all, then the await
BidSecond ==
    /\ bid.pc = "starting"
    /\ bid' = [bid EXCEPT !.pc = "awaiting"]
    /\ HookCall(BidTimeCall, "encrypt32", bid.second, "bid")
    /\ UNCHANGED <<isProcessing, bidError>>

\* an encryptBid that returns whatever the two callbacks returned
BidOutcome_Partial(amount, time) ==
    IF amount.kind = "thrown" THEN [ret |-> Null, error |-> amount.error]
    ELSE IF time.kind = "thrown" THEN [ret |-> Null, error |-> time.error]
    ELSE [ret |-> [encryptedAmount |-> amount.value, encryptedTime |-> time.value],
          error |-> NoError]

\* what encryptBid returns, and the error it sets, once both callbacks have
\* settled: a rejected callback or a null result lands in the catch
BidOutcome(amount, time) ==
    IF amount.kind = "thrown" THEN [ret |-> Null, error |-> amount.error]
    ELSE IF time.kind = "thrown" THEN [ret |-> Null, error |-> time.error]
    ELSE IF amount.value = Null \/ time.value = Null
      THEN [ret |-> Null, error |-> PlainError("Encryption failed")]
    ELSE [ret |-> [encryptedAmount |-> amount.value, encryptedTime |-> time.value],
          error |-> NoError]

\* Promise.all has settled: return both ciphertexts or catch, then finally
BidResume ==
    /\ bid.pc = "awaiting"
    /\ hookCall[BidAmountCall].pc = "done"
    /\ hookCall[BidTimeCall].pc = "done"
    /\ LET out == BidOutcome(hookCall[BidAmountCall].ret, hookCall[BidTimeCall].ret)
       IN /\ bid' = [bid EXCEPT !.pc = "done", !.ret = Returned(out.ret)]
          /\ bidError' = IF out.ret = Null THEN out.error ELSE bidError
    /\ isProcessing' = FALSE
    /\ UNCHANGED <<hookCall, isEncrypting, encryptError, isDecrypting, decryptError,
                   clientVars>>

\* the component takes what encryptBid returned; its two hook calls are over
BidTake ==
    /\ bid.pc = "done"
    /\ bid' = NoBid
    /\ hookCall' = [hookCall EXCEPT ![BidAmountCall] = NoHookCall,
                                    ![BidTimeCall] = NoHookCall]
    /\ UNCHANGED <<isEncrypting, encryptError, isDecrypting, decryptError,
                   isProcessing, bidError, clientVars>>

\* the caller of the client that FhevmProvider's init() is
ProviderCaller == 1

\* the effect of the first render: init() calls initialize() on its client
MountAndInitialize ==
    /\ hookCall[ProviderCaller].pc = "idle"
    /\ Mount
    /\ InitializeCall(ProviderCaller)

\* init() resumes after await fhevmClient.initialize()
InitSettles ==
    /\ pc[ProviderCaller] = "done"
    /\ result[ProviderCaller].op = "initialize"
    /\ IF result[ProviderCaller].status = "ok"
         THEN InitResolve(Len(runs))
         ELSE InitReject(Len(runs), result[ProviderCaller].error)
    /\ Return(ProviderCaller)

\* synchronous code runs to completion: nothing else runs inside encryptBid's
\* two calls
Interleavable == bid.pc # "starting"

HookFrame == UNCHANGED <<retryVars, scriptVars, providerVars, biddingVars>>

\* a FhevmProvider for sepolia before its first render, its client, and idle hooks
InitHooks ==
    /\ ClientInit
    /\ ProviderIdle
    /\ config.network = propConfig.network
    /\ RetryIdle
    /\ callLimit = MaxHookCalls
    /\ prevOutcome = NoResult
    /\ HooksIdle
    /\ BiddingInit

NextHooks ==
    \/ Interleavable /\ MountAndInitialize /\ UNCHANGED <<retryVars, scriptVars, hookVars, biddingVars>>
    \/ \E id \in ChainIds :
          Interleavable /\ GetNetworkResolve(ProviderCaller, id)
              /\ UNCHANGED <<retryVars, scriptVars, reactVars, biddingVars>>
    \/ \E e \in ProviderErrors :
          Interleavable /\ GetNetworkReject(ProviderCaller, e)
              /\ UNCHANGED <<retryVars, scriptVars, reactVars, biddingVars>>
    \/ \E outcome \in GetCodeOutcomes :
          Interleavable /\ GetCodeSettle(ProviderCaller, outcome)
              /\ UNCHANGED <<retryVars, scriptVars, reactVars, biddingVars>>
    \/ Interleavable /\ CreateInstanceResolve(ProviderCaller)
          /\ UNCHANGED <<retryVars, scriptVars, reactVars, biddingVars>>
    \/ \E e \in ProviderErrors :
          Interleavable /\ CreateInstanceReject(ProviderCaller, e)
              /\ UNCHANGED <<retryVars, scriptVars, reactVars, biddingVars>>
    \/ Interleavable /\ InitSettles /\ UNCHANGED <<retryVars, scriptVars, hookVars, biddingVars>>
    \/ \E h \in Callers, op \in HookOps, v \in HookValues :
          Interleavable /\ bid.pc = "idle" /\ HookCall(h, op, v, "component")
              /\ UNCHANGED <<bid, isProcessing, bidError>> /\ HookFrame
    \/ \E h \in Callers : Interleavable /\ HookResume(h)
          /\ UNCHANGED <<bid, isProcessing, bidError>> /\ HookFrame
    \/ \E h \in Callers : Interleavable /\ HookTake(h)
          /\ UNCHANGED <<bid, isProcessing, bidError>> /\ HookFrame
    \/ \E v1, v2 \in HookValues : BidCall(v1, v2) /\ HookFrame
    \/ BidSecond /\ HookFrame
    \/ Interleavable /\ BidResume /\ HookFrame
    \/ Interleavable /\ BidTake /\ HookFrame

SpecHooks == InitHooks /\ [][NextHooks]_vars

----------------------------------------------------------------------------
(* contract PrivacyConstructionBidding (unnamed/part_002, from line 80).   *)
(* A call either runs to its end or reverts and changes nothing; tx is the *)
(* last call made, with its sender and whether it went through.  A uint256 *)
(* argument is a Val; a euint32 holds the uint32 it encrypts and the        *)
(* addresses FHE.allow has let decrypt it.                                  *)

\* projectId arguments: 0 and identifiers beyond projectCount are invalid
ProjectArgs == {0} \cup ProjectIds

\* a > 0, a <= b on uint256 values
Positive(a) == a.hi > 0 \/ a.lo > 0
AtMost(a, b) == a.hi < b.hi \/ (a.hi = b.hi /\ a.lo <= b.lo)

\* uint32(v) of a uint256 v: the low 32 bits
Uint32Of(v) == Val(FALSE, v.hi % Limb, v.lo)

\* FHE.allowThis / FHE.allow
Allow(e, who) == [e EXCEPT !.allowed = @ \cup who]

\* arguments of createProject: a valid value and an invalid one of each
ProjectNames == {"", "Bridge"}
\* maxBudget: 0 and 2^32 + 1
Budgets == { Zero, Val(FALSE, Limb, 1) }
Deadlines == {0, MaxTime + 1}
Durations == {0, 1}

\* arguments of submitBid: bidAmount 0, 1, 2^32, 2^32 + 2
BidAmounts == { Zero, Val(FALSE, 0, 1), Val(FALSE, Limb, 0), Val(FALSE, Limb, 2) }
\* completionTime: 30 days beside a bidAmount below 2^32, 2^32 + 30 beside the others
CompletionTimeOf(bidAmount) == Val(FALSE, bidAmount.hi, 30)

Tx(fn, sender, project, who, ok) ==
    [fn |-> fn, sender |-> sender, project |-> project, who |-> who, ok |-> ok]

contractState == <<owner, projectCount, projects, bids, authorizedContractors>>

\* the call goes through / a require fails: the call changes nothing.
\* Calls are mined one after the other: a call is made once the outcome of
\* the previous one has been taken.
Done(fn, sender, project, who) ==
    /\ tx = NoTx
    /\ tx' = Tx(fn, sender, project, who, TRUE)
Revert(fn, sender, project, who) ==
    /\ tx = NoTx
    /\ tx' = Tx(fn, sender, project, who, FALSE)
    /\ UNCHANGED contractState

\* the sender takes the outcome of its call
Receipt ==
    /\ tx # NoTx
    /\ tx' = NoTx
    /\ UNCHANGED <<contractState, now>>

\* modifier onlyOwner
OnlyOwner(sender) == sender = owner

\* a modifier that lets every sender through
OnlyAuthorizedContractor_Anyone(sender) == TRUE

\* modifier onlyAuthorizedContractor
OnlyAuthorizedContractor(sender) == authorizedContractors[sender]

\* require(projectId > 0 && projectId <= projectCount)
ValidProject(p) == p > 0 /\ p <= projectCount

authorizeContractor(sender, contractor) ==
    /\ IF OnlyOwner(sender) /\ ~authorizedContractors[contractor]
         THEN /\ authorizedContractors' = [authorizedContractors EXCEPT ![contractor] = TRUE]
              /\ Done("authorizeContractor", sender, 0, contractor)
              /\ UNCHANGED <<owner, projectCount, projects, bids>>
         ELSE Revert("authorizeContractor", sender, 0, contractor)
    /\ UNCHANGED now

revokeContractor(sender, contractor) ==
    /\ IF OnlyOwner(sender) /\ authorizedContractors[contractor]
         THEN /\ authorizedContractors' = [authorizedContractors EXCEPT ![contractor] = FALSE]
              /\ Done("revokeContractor", sender, 0, contractor)
              /\ UNCHANGED <<owner, projectCount, projects, bids>>
         ELSE Revert("revokeContractor", sender, 0, contractor)
    /\ UNCHANGED now

\* createProject, while the model has room for the project
createProject(sender, name, maxBudget, deadline, biddingDuration) ==
    /\ projectCount + 1 \in ProjectIds
    /\ IF /\ name # ""
          /\ Positive(maxBudget)
          /\ deadline > now
          /\ biddingDuration > 0
         THEN /\ projectCount' = projectCount + 1
              /\ projects' = [projects EXCEPT ![projectCount + 1] =
                     [@ EXCEPT !.name = name,
                               !.creator = sender,
                               !.maxBudget = maxBudget,
                               !.deadline = deadline,
                               !.biddingEndTime = now + biddingDuration,
                               !.isActive = TRUE,
                               !.biddingClosed = FALSE,
                               !.winner = ZeroAddress,
                               !.winningAmount = Zero]]
              /\ Done("createProject", sender, projectCount + 1, ZeroAddress)
              /\ UNCHANGED <<owner, bids, authorizedContractors>>
         ELSE Revert("createProject", sender, 0, ZeroAddress)
    /\ UNCHANGED now

\* a submitBid without the check for an earlier bid
NotYetSubmitted_Unchecked(p, sender) == TRUE

\* require(!bids[projectId][msg.sender].submitted)
NotYetSubmitted(p, sender) == ~bids[p][sender].submitted

\* a submitBid without the checks on the state of the bidding
BiddingOpen_Unchecked(p) == TRUE

\* require(project.isActive); require(!project.biddingClosed);
\* require(block.timestamp < project.biddingEndTime)
BiddingOpen(p) ==
    /\ projects[p].isActive
    /\ ~projects[p].biddingClosed
    /\ now < projects[p].biddingEndTime

submitBid(sender, p, bidAmount, completionTime, proposal) ==
    /\ IF /\ OnlyAuthorizedContractor(sender)
          /\ ValidProject(p)
          /\ BiddingOpen(p)
          /\ NotYetSubmitted(p, sender)
          /\ Positive(bidAmount)
          /\ AtMost(bidAmount, projects[p].maxBudget)
         THEN LET readers == {ThisContract, sender, projects[p].creator}
                  encAmount == AsEuint32(Uint32Of(bidAmount))
                  encTime == AsEuint32(Uint32Of(completionTime))
              IN /\ bids' = [bids EXCEPT ![p][sender] =
                        [encryptedAmount |-> Allow(encAmount, readers),
                         encryptedCompletionTime |-> Allow(encTime, readers),
                         proposal |-> proposal,
                         submitted |-> TRUE,
                         timestamp |-> now,
                         bidAmount |-> bidAmount,
                         completionTime |-> completionTime]]
                 /\ projects' = [projects EXCEPT ![p].bidders = Append(@, sender)]
                 /\ Done("submitBid", sender, p, sender)
                 /\ UNCHANGED <<owner, projectCount, authorizedContractors>>
         ELSE Revert("submitBid", sender, p, sender)
    /\ UNCHANGED now

\* require(msg.sender == project.creator || block.timestamp >= project.biddingEndTime)
MayClose(sender, p) ==
    sender = projects[p].creator \/ now >= projects[p].biddingEndTime

closeBidding(sender, p) ==
    /\ IF ValidProject(p) /\ MayClose(sender, p) /\ ~projects[p].biddingClosed
         THEN /\ projects' = [projects EXCEPT ![p].biddingClosed = TRUE]
              /\ Done("closeBidding", sender, p, ZeroAddress)
              /\ UNCHANGED <<owner, projectCount, bids, authorizedContractors>>
         ELSE Revert("closeBidding", sender, p, ZeroAddress)
    /\ UNCHANGED now

\* the loop of evaluateBids from index i: bestBidder is set once, to the
\* first bidder (the encrypted minimum it also folds is dropped at return)
RECURSIVE BestBidder(_, _, _)
BestBidder(bidders, i, bestBidder) ==
    IF i > Len(bidders) THEN bestBidder
    ELSE BestBidder(bidders, i + 1,
                    IF bestBidder = ZeroAddress THEN bidders[i] ELSE bestBidder)

\* an evaluateBids that picks the last bidder
SelectedWinner_Last(bidders) == bidders[Len(bidders)]

\* project.winner = project.bidders[0]
SelectedWinner(bidders) == bidders[1]

evaluateBids(sender, p) ==
    /\ IF /\ ValidProject(p)
          /\ sender = projects[p].creator
          /\ projects[p].biddingClosed
          /\ Len(projects[p].bidders) > 0
         THEN /\ IF BestBidder(projects[p].bidders, 1, ZeroAddress) # ZeroAddress
                   THEN projects' = [projects EXCEPT
                            ![p].winner = SelectedWinner(projects[p].bidders),
                            ![p].isActive = FALSE]
                   ELSE UNCHANGED projects
              /\ Done("evaluateBids", sender, p, ZeroAddress)
              /\ UNCHANGED <<owner, projectCount, bids, authorizedContractors>>
         ELSE Revert("evaluateBids", sender, p, ZeroAddress)
    /\ UNCHANGED now

\* a view anyone may call
CanViewBid_Anyone(sender, p, bidder) == TRUE

\* require(msg.sender == project.creator || msg.sender == bidder)
CanViewBid(sender, p, bidder) == sender = projects[p].creator \/ sender = bidder

\* the views getBid / getBidEncrypted: they return or revert
ViewBid(fn, sender, p, bidder) ==
    /\ tx = NoTx
    /\ tx' = Tx(fn, sender, p, bidder, ValidProject(p) /\ CanViewBid(sender, p, bidder))
    /\ UNCHANGED <<contractState, now>>

getBid(sender, p, bidder) == ViewBid("getBid", sender, p, bidder)
getBidEncrypted(sender, p, bidder) == ViewBid("getBidEncrypted", sender, p, bidder)

\* a block later
Tick ==
    /\ now < MaxTime
    /\ now' = now + 1
    /\ UNCHANGED <<contractState, tx>>

InitBidding == ClientIdle /\ RetryIdle /\ ScriptIdle /\ ReactIdle /\ BiddingInit

OffChain == UNCHANGED <<clientVars, retryVars, scriptVars, reactVars>>

NextBidding ==
    \/ \E s \in Accounts, c \in Contractors : authorizeContractor(s, c) /\ OffChain
    \/ \E s \in Accounts, c \in Contractors : revokeContractor(s, c) /\ OffChain
    \/ \E s \in Accounts, name \in ProjectNames, budget \in Budgets,
          deadline \in Deadlines, duration \in Durations :
          createProject(s, name, budget, deadline, duration) /\ OffChain
    \/ \E s \in Accounts, p \in ProjectArgs, amount \in BidAmounts :
          submitBid(s, p, amount, CompletionTimeOf(amount), "proposal") /\ OffChain
    \/ \E s \in Accounts, p \in ProjectArgs : closeBidding(s, p) /\ OffChain
    \/ \E s \in Accounts, p \in ProjectArgs : evaluateBids(s, p) /\ OffChain
    \/ \E s, b \in Accounts, p \in ProjectArgs : getBid(s, p, b) /\ OffChain
    \/ \E s, b \in Accounts, p \in ProjectArgs : getBidEncrypted(s, p, b) /\ OffChain
    \/ Receipt /\ OffChain
    \/ Tick /\ OffChain

SpecBidding == InitBidding /\ [][NextBidding]_vars

----------------------------------------------------------------------------
(* Properties of FhevmClient, checked under Spec *)

\* caller c calls initialize() in this step
CallsInitialize(c) ==
    /\ pc[c] = "idle"
    /\ \/ pc'[c] \in InitPcs
       \/ pc'[c] = "done" /\ result'[c].op = "initialize"

\* caller c calls op in this step (encrypt32, encrypt64 and
\* createDecryptionSignature settle in the step that calls them)
CallsGuarded(c, op) ==
    /\ pc[c] = "idle"
    /\ pc'[c] = "done"
    /\ result'[c].op = op

\* C1: while no initialize() has settled yet, however many callers have asked
\* for the session, getNetwork and createInstance were invoked at most once.
C1_AtMostOneInitialization ==
    ~initSettled => calls["getNetwork"] <= 1 /\ calls["createInstance"] <= 1

\* C2: a call of encrypt32, encrypt64 or createDecryptionSignature made while
\* the session is not Ready is rejected in the same step with the
\* not-initialized error and invokes no provider operation.
C2_PreconditionEnforcement ==
    [][\A c \in Callers :
          \A op \in {"encrypt32", "encrypt64", "createDecryptionSignature"} :
              (~initialized /\ CallsGuarded(c, op)) =>
                  /\ result'[c].status = "err"
                  /\ result'[c].error \in {NotInitializedError, SignatureNotInitializedError}
                  /\ calls' = calls
                  /\ encrypted' = encrypted]_vars

\* a createDecryptionSignature call was rejected on a session whose
\* initialization had failed, and generateToken was never invoked
C2_Witness ==
    /\ ~initialized
    /\ \E c, d \in Callers :
          /\ c # d
          /\ result[c] = Rejected("createDecryptionSignature", SignatureNotInitializedError)
          /\ result[d].op = "initialize"
          /\ result[d].status = "err"
          /\ calls["generateToken"] = 0

\* C6: encrypt32 on a Ready session surfaces a provider failure only once
\* maxRetries retries are exhausted, that is after maxRetries + 1 attempts.
C6_EncryptRetried ==
    \A c \in Callers :
        (result[c].op = "encrypt32" /\ result[c].status = "err"
            /\ result[c].error # NotInitializedError)
        => calls["encrypt32"] >= DefaultMaxRetries + 1

\* C7: no value outside 0 <= value < 2^32 is ever handed to the provider's
\* encrypt32 by FhevmClient.encrypt32.
C7_InputRangeCheck ==
    \A x \in encrypted : x.method = "encrypt32" => IsUint32(x.value)

C9_InitializationValidated ==
    initialized =>
        /\ instance.chainId = ExpectedChainId(config.network)
        /\ instance.publicKey # "0x"

\* C10: no initialize() is reported successful when a provider call it made
\* has failed.
C10_NoErrorSwallowed ==
    \A c \in Callers :
        (result[c].op = "initialize" /\ result[c].status = "ok")
        => swallowed[c] \cap ProviderErrors = {}

----------------------------------------------------------------------------
(* Properties of retryWithBackoff, checked under SpecRetry *)

\* C3: a retried call makes at most maxRetries + 1 attempts; when it throws,
\* every one of the maxRetries + 1 attempts has failed, what it throws is the
\* error of the last attempt itself, and nothing is attempted afterwards.
C3_RetryExhaustion ==
    /\ [](/\ Len(attemptErrors) <= maxRetries + 1
          /\ attemptNumber <= maxRetries + 1
          /\ rpc = "thrown" =>
                /\ Len(attemptErrors) = maxRetries + 1
                /\ attemptNumber = maxRetries + 1
                /\ retOutcome = Rejected("retryWithBackoff", attemptErrors[maxRetries + 1]))
    /\ [][rpc = "thrown" => UNCHANGED retryVars]_vars

\* the default maxRetries = 3: four attempts failed, the first and the last
\* with different errors
C3_Witness ==
    /\ rpc = "thrown"
    /\ maxRetries = DefaultMaxRetries
    /\ Len(attemptErrors) = 4
    /\ attemptErrors[1] # attemptErrors[4]

\* C4: the i-th delay of a retried call is baseDelay * 2^(i-1); there is one
\* delay after each failed attempt that is retried, none before attempt 1, and
\* never more than maxRetries of them.
C4_BackoffLaw ==
    /\ \A i \in 1..Len(delays) : delays[i] = baseDelay * 2^(i - 1)
    /\ Len(delays) <= maxRetries
    /\ rpc = "attempt" => Len(delays) = attemptNumber - 1
    /\ rpc = "sleep" => Len(delays) = attemptNumber

\* d = 1000: the delays were 1000, 2000 and 4000 ms
C4_Witness ==
    /\ baseDelay = DefaultBaseDelay
    /\ delays = <<1000, 2000, 4000>>
    /\ rpc = "attempt"
    /\ attemptNumber = 4

\* C5: a retried call that returns has failed k <= maxRetries times, returns
\* the value of attempt k + 1 without an error, and has slept exactly k times.
C5_RetrySuccessPath ==
    rpc = "returned" =>
        /\ Len(attemptErrors) <= maxRetries
        /\ attemptNumber = Len(attemptErrors) + 1
        /\ Len(delays) = Len(attemptErrors)
        /\ retOutcome.status = "ok"
        /\ retOutcome.value.fn \in FnValues

\* two failures, then the third attempt succeeded after two delays
C5_Witness ==
    /\ rpc = "returned"
    /\ Len(attemptErrors) = 2
    /\ attemptNumber = 3
    /\ Len(delays) = 2
    /\ retOutcome.status = "ok"

----------------------------------------------------------------------------
(* The session state of a FhevmClient, and its transitions *)

\* the SessionState a FhevmClient is in, read off its fields and its calls
SessionState ==
    IF initialized THEN "Ready"
    ELSE IF \E c \in Callers : pc[c] \in InitPcs THEN "Initializing"
    ELSE IF initSettled THEN "Failed"
    ELSE "Uninitialized"

GuardedOps == {"encrypt32", "encrypt64", "createDecryptionSignature", "requestDecryption"}

\* C11 as stated: Ready is never left, and Failed is never left.
C11_FailedIsTerminal ==
    [][/\ SessionState = "Ready" => SessionState' = "Ready"
       /\ SessionState = "Failed" => SessionState' = "Failed"]_vars

\* C11 as amended: Ready is never left; Uninitialized is left only for
\* Initializing, Initializing only for Ready or Failed, and Failed only for
\* Initializing, by a further initialize() call on the same client.
C11_SessionStateForward ==
    [][/\ SessionState = "Ready" => SessionState' = "Ready"
       /\ SessionState = "Uninitialized" =>
              SessionState' \in {"Uninitialized", "Initializing"}
       /\ SessionState = "Initializing" =>
              SessionState' \in {"Initializing", "Ready", "Failed"}
       /\ SessionState = "Failed" =>
              /\ SessionState' \in {"Failed", "Initializing"}
              /\ SessionState' = "Initializing" => \E c \in Callers : CallsInitialize(c)]_vars

\* a client that is Ready after two initialize() calls, one of which failed
\* at getNetwork
C11_Witness ==
    /\ SessionState = "Ready"
    /\ calls["getNetwork"] = 2
    /\ calls["createInstance"] = 1
    /\ \E c \in Callers : result[c].op = "initialize" /\ result[c].status = "err"

\* C12: initialize() called on a client whose initialization has failed starts
\* over with getNetwork; an initialize() whose createInstance resolves leaves the
\* client Ready; and on a Ready client no call is rejected as not initialized.
C12_ReinitializeAfterFailure ==
    [][\A c \in Callers :
          /\ (SessionState = "Failed" /\ CallsInitialize(c)) =>
                /\ pc'[c] = "getNetwork"
                /\ calls'["getNetwork"] = calls["getNetwork"] + 1
                /\ frame'[c] = NoFrame
          /\ (pc[c] = "createInstance" /\ pc'[c] = "done" /\ result'[c].status = "ok") =>
                /\ initialized'
                /\ instance' # NoInstance
          /\ \A op \in GuardedOps :
                (initialized /\ CallsGuarded(c, op) /\ result'[c].status = "err") =>
                    result'[c].error \notin {NotInitializedError, SignatureNotInitializedError}]_vars

\* the script's first initialize() failed at getNetwork, its second one
\* succeeded, and the encrypt32 it called next has returned a ciphertext
C12_Witness ==
    /\ initialized
    /\ calls["getNetwork"] = 2
    /\ calls["createInstance"] = 1
    /\ prevOutcome = Resolved("initialize", Void)
    /\ result[Script].op = "encrypt32"
    /\ result[Script].status = "ok"

\* C13: encrypt32, encrypt64, createDecryptionSignature and requestDecryption
\* leave initialized, instance and config as they are, whether they succeed or
\* fail, and no step changes config.
C13_OnlyInitializeChangesState ==
    [][/\ \A c \in Callers : \A op \in GuardedOps :
             CallsGuarded(c, op) => UNCHANGED <<initialized, instance, config>>
       /\ config' = config]_vars

\* on a Ready client an encrypt32 has failed in the provider, and the client
\* is Ready with the instance it was given
C13_Witness ==
    /\ initialized
    /\ instance # NoInstance
    /\ \E c, d \in Callers :
          /\ result[c].op = "encrypt32"
          /\ result[c].status = "err"
          /\ result[c].error # NotInitializedError
          /\ d # c
          /\ pc[d] = "idle"

\* C14: once the client is Ready, a call that fails, or whose outcome the caller
\* never takes, leaves it Ready, and the next encrypt32 reaches the provider and
\* returns what the provider returns, never a not-initialized error.
C14_FailedCallsKeepSessionReady ==
    [][\A op \in GuardedOps :
          (initialized /\ CallsGuarded(Script, op)) =>
              /\ initialized'
              /\ instance' = instance
              /\ calls' # calls
              /\ result'[Script].status = "err" =>
                    result'[Script].error \notin
                        {NotInitializedError, SignatureNotInitializedError}]_vars

\* the script's encrypt32 failed in the provider, and the encrypt32 it called
\* next has returned a ciphertext
C14_Witness ==
    /\ initialized
    /\ prevOutcome.op = "encrypt32"
    /\ prevOutcome.status = "err"
    /\ prevOutcome.error # NotInitializedError
    /\ result[Script].op = "encrypt32"
    /\ result[Script].status = "ok"

----------------------------------------------------------------------------
(* Properties of FhevmProvider, checked under SpecProvider *)

\* C15: between two changes of the configuration at most one client is
\* constructed and initialized: two consecutive effect runs never carry the
\* same configuration
C15_OneSessionPerConfiguration ==
    \A i \in 1..(Len(runs) - 1) :
        runs[i].config.network # runs[i + 1].config.network

\* C16: a change of the configuration resets the context: right after it no
\* client is exposed, isInitialized is false and error is null
C16_ResetDiscardsSession ==
    [][propConfig'.network # propConfig.network =>
          /\ ctxClient' = NoClient
          /\ ~ctxIsInitialized'
          /\ ctxError' = NoError]_vars

\* C18: the context never reports isInitialized = true, with a client,
\* together with a non-null error
C18_ErrorOnlyWhenFailed ==
    ~(ctxIsInitialized /\ ctxClient # NoClient /\ ctxError # NoError)

----------------------------------------------------------------------------
(* encrypt64 and the 32-bit remote call, checked under Spec *)

\* C17: encrypt64 never passes a value of 2^32 or more (or below 0) to
\* the 32-bit remote encrypt call
C17_Encrypt64RangeCheck ==
    \A x \in encrypted : x.method = "encrypt64" => IsUint32(x.value)

----------------------------------------------------------------------------
(* Properties of the hooks, checked under SpecHooks *)

\* the error state of the hook that callback op belongs to, after a step
HookErrorNext(op) == IF op = "createSignature" THEN decryptError' ELSE encryptError'

\* hook call h starts in this step / resumes after its await in this step
HookStarts(h) == hookCall[h].pc = "idle" /\ hookCall'[h].pc # "idle"
HookResumes(h) == hookCall[h].pc = "awaiting" /\ hookCall'[h].pc = "done"

\* C19: encrypt32 / encrypt64 of useEncrypt and createSignature of
\* useDecrypt never throw; called while the context is not initialized they
\* return null, set the hook's error and do not call the client; when the
\* client call fails they return null and the hook's error is that failure;
\* they return a non-null result only when the client call succeeded
C19_HooksReturnErrors ==
    [][\A h \in Callers :
          /\ hookCall'[h].ret.kind # "thrown"
          /\ (HookStarts(h) /\ (~ctxIsInitialized \/ ctxClient = NoClient)) =>
                /\ hookCall'[h].pc = "done"
                /\ hookCall'[h].ret = Returned(Null)
                /\ HookErrorNext(hookCall'[h].op) # NoError
                /\ UNCHANGED clientVars
          /\ (HookStarts(h) /\ ctxIsInitialized /\ ctxClient # NoClient) =>
                /\ hookCall'[h].pc = "awaiting"
                /\ pc'[h] = "done"
          /\ HookResumes(h) =>
                IF result[h].status = "err"
                  THEN /\ hookCall'[h].ret = Returned(Null)
                       /\ HookErrorNext(hookCall[h].op) = result[h].error
                  ELSE /\ hookCall'[h].ret = Returned(result[h].value)
                       /\ hookCall'[h].ret.value # Null]_vars

\* an initialized context; an encrypt32 has returned null for a failure of
\* the client call, which is the hook's error; a createSignature made before
\* the context was initialized left its error
C19_Witness ==
    /\ ctxIsInitialized
    /\ decryptError = PlainError("fhEVM not initialized")
    /\ \E h \in Callers, e \in ProviderErrors :
          /\ hookCall[h].pc = "done"
          /\ hookCall[h].op = "encrypt32"
          /\ hookCall[h].ret = Returned(Null)
          /\ encryptError = WrappedError("Failed to encrypt value: ", e)

\* C20: encryptBid returns both ciphertexts or null, never one of them; if
\* either encryption returned null (it failed, or the context is not
\* initialized) encryptBid returns null with the hook's error set; and
\* isProcessing is false once encryptBid has returned
C20_BidAllOrNothing ==
    [][/\ (bid.pc = "awaiting" /\ bid'.pc = "done") =>
            LET amount == hookCall[BidAmountCall].ret
                time == hookCall[BidTimeCall].ret
            IN /\ bid'.ret.kind = "returned"
               /\ IF amount = Returned(Null) \/ time = Returned(Null)
                    THEN bid'.ret.value = Null /\ bidError' # NoError
                    ELSE bid'.ret.value =
                            [encryptedAmount |-> amount.value, encryptedTime |-> time.value]
       /\ bid'.pc = "done" => ~isProcessing']_vars

\* encryptBid has returned null with its error set, after the encryption of
\* the amount failed in the client and the encryption of the time succeeded
C20_Witness ==
    /\ bid.pc = "done"
    /\ bid.ret = Returned(Null)
    /\ bidError = PlainError("Encryption failed")
    /\ ~isProcessing
    /\ ctxIsInitialized
    /\ hookCall[BidAmountCall].ret = Returned(Null)
    /\ hookCall[BidTimeCall].ret.kind = "returned"
    /\ hookCall[BidTimeCall].ret.value # Null

----------------------------------------------------------------------------
(* Concurrency of the hooks, the provider component and the client *)

EncryptOps == {"encrypt32", "encrypt64"}

\* an encrypt call issued through useEncrypt is still in flight
EncryptInFlight ==
    \E h \in Callers : hookCall[h].pc = "awaiting" /\ hookCall[h].op \in EncryptOps

\* C23: isEncrypting is true whenever an encrypt call issued through
\* useEncrypt is in flight, and false once every issued call has completed
C23_IsEncryptingWhileInFlight == isEncrypting <=> EncryptInFlight

\* C24: once the initialization for the current configuration has settled,
\* an initialization started for an older configuration that settles later
\* leaves client, isInitialized and error as they are
C24_LatestConfigurationWins ==
    [][\A r \in DOMAIN runs :
          ( /\ runs[r].state = "pending"
            /\ runs'[r].state # "pending"
            /\ runs[r].config.network # propConfig.network
            /\ \E n \in DOMAIN runs :
                  n > r /\ runs[n].config = propConfig /\ runs[n].state # "pending" )
          => UNCHANGED <<ctxClient, ctxIsInitialized, ctxError>>]_vars

\* C25: once the client is initialized its instance is never replaced and
\* createInstance is not invoked again
C25_InstanceNeverChanges ==
    [][initialized =>
          /\ instance' = instance
          /\ calls'["createInstance"] = calls["createInstance"]]_vars

\* caller c's initialize() fails in this step
InitializeFails(c) ==
    /\ pc[c] \in InitPcs
    /\ pc'[c] = "done"
    /\ result'[c].status = "err"

----------------------------------------------------------------------------
(* Properties of PrivacyConstructionBidding, checked under SpecBidding *)

\* a bid of contractor c for project p is recorded in this step
BidRecorded(p, c) == ~bids[p][c].submitted /\ bids'[p][c].submitted

\* C21: a bid is recorded only for a sender who is authorized when it
\* submits (so not for a revoked one), every bidder of a project has a
\* recorded bid, and only the owner changes who is authorized
C21_OnlyAuthorizedBid ==
    [][/\ \A p \in ProjectIds, c \in Accounts :
             /\ BidRecorded(p, c) =>
                   /\ authorizedContractors[c]
                   /\ tx' = Tx("submitBid", c, p, c, TRUE)
             /\ ~authorizedContractors[c] => bids'[p][c] = bids[p][c]
       /\ \A p \in ProjectIds : \A i \in DOMAIN projects'[p].bidders :
             bids'[p][projects'[p].bidders[i]].submitted
       /\ authorizedContractors' # authorizedContractors =>
             /\ tx'.sender = owner
             /\ tx'.fn \in {"authorizeContractor", "revokeContractor"}]_vars

\* a contractor's bid is recorded, and the submitBid of a sender who is not
\* authorized has just reverted while the bidding is open
C21_Witness ==
    /\ \E c \in Accounts : bids[1][c].submitted
    /\ tx.fn = "submitBid"
    /\ ~tx.ok
    /\ tx.project = 1
    /\ ~authorizedContractors[tx.sender]
    /\ ~bids[1][tx.sender].submitted
    /\ projects[1].isActive
    /\ ~projects[1].biddingClosed
    /\ now < projects[1].biddingEndTime

BidViews == {"getBid", "getBidEncrypted"}

\* C22: getBid and getBidEncrypted for (p, b) return only when the caller is
\* p's creator or b; they revert for every other caller
C22_BidViewAccess ==
    (tx.fn \in BidViews /\ tx.ok) =>
        /\ tx.project \in 1..projectCount
        /\ tx.sender \in {projects[tx.project].creator, tx.who}

\* the creator has read the recorded bid of a contractor
C22_Witness ==
    /\ tx.fn = "getBidEncrypted"
    /\ tx.ok
    /\ tx.project = 1
    /\ tx.sender = projects[1].creator
    /\ tx.who # tx.sender
    /\ bids[1][tx.who].submitted

\* C27: a second submitBid of the same address for the same project reverts
\* and leaves the stored bid as it is; the bidders of a project are distinct
\* and as many as its recorded bids
C27_OneBidPerContractor ==
    [][\A p \in ProjectIds :
          /\ \A c \in Accounts :
                bids[p][c].submitted =>
                    /\ bids'[p][c] = bids[p][c]
                    /\ (tx = NoTx /\ tx'.fn = "submitBid" /\ tx'.sender = c
                           /\ tx'.project = p) => ~tx'.ok
          /\ \A i, j \in DOMAIN projects'[p].bidders :
                i # j => projects'[p].bidders[i] # projects'[p].bidders[j]
          /\ Len(projects'[p].bidders)
                = Cardinality({c \in Accounts : bids'[p][c].submitted})]_vars

\* the second submitBid of an authorized contractor has reverted while the
\* bidding is open; another contractor has bid as well
C27_Witness ==
    /\ tx.fn = "submitBid"
    /\ ~tx.ok
    /\ tx.project = 1
    /\ authorizedContractors[tx.sender]
    /\ bids[1][tx.sender].submitted
    /\ Len(projects[1].bidders) = 2
    /\ projects[1].isActive
    /\ ~projects[1].biddingClosed
    /\ now < projects[1].biddingEndTime

\* C28: a bid is recorded only while the project is active, its bidding is
\* not closed and block time is before biddingEndTime; closeBidding goes
\* through only for the creator, or for anyone from biddingEndTime on; and
\* biddingClosed never goes back to false
C28_NoBidAfterClose ==
    [][\A p \in ProjectIds :
          /\ \A c \in Accounts :
                BidRecorded(p, c) =>
                    /\ projects[p].isActive
                    /\ ~projects[p].biddingClosed
                    /\ now < projects[p].biddingEndTime
          /\ (~projects[p].biddingClosed /\ projects'[p].biddingClosed) =>
                /\ tx'.fn = "closeBidding"
                /\ tx'.sender = projects[p].creator \/ now >= projects[p].biddingEndTime
          /\ (tx = NoTx /\ tx'.fn = "closeBidding" /\ tx'.ok /\ tx'.project = p) =>
                tx'.sender = projects[p].creator \/ now >= projects[p].biddingEndTime
          /\ projects[p].biddingClosed => projects'[p].biddingClosed]_vars

\* someone other than the creator closed the bidding at biddingEndTime, and
\* the submitBid of an authorized contractor without a bid has then reverted
C28_Witness ==
    /\ projects[1].biddingClosed
    /\ projects[1].isActive
    /\ now >= projects[1].biddingEndTime
    /\ tx.fn = "submitBid"
    /\ ~tx.ok
    /\ tx.project = 1
    /\ authorizedContractors[tx.sender]
    /\ ~bids[1][tx.sender].submitted
    /\ Len(projects[1].bidders) = 1

\* C29: the winner is set only by an evaluateBids of the creator with the
\* bidding closed and a bid submitted; it is the first bidder, the project
\* is inactive from then on, and the winner never changes afterwards
C29_WinnerOnlyByEvaluation ==
    [][\A p \in ProjectIds :
          /\ (projects[p].winner = ZeroAddress /\ projects'[p].winner # ZeroAddress) =>
                /\ tx' = Tx("evaluateBids", projects[p].creator, p, ZeroAddress, TRUE)
                /\ projects[p].biddingClosed
                /\ Len(projects[p].bidders) > 0
          /\ projects'[p].winner # ZeroAddress =>
                /\ Len(projects'[p].bidders) > 0
                /\ projects'[p].winner = projects'[p].bidders[1]
                /\ ~projects'[p].isActive
          /\ projects[p].winner # ZeroAddress =>
                /\ projects'[p].winner = projects[p].winner
                /\ projects'[p].bidders = projects[p].bidders]_vars

\* evaluateBids has gone through on a project with two bidders whose winner
\* was already set: the winner is still the first bidder
C29_Witness ==
    /\ tx = Tx("evaluateBids", projects[1].creator, 1, ZeroAddress, TRUE)
    /\ Len(projects[1].bidders) = 2
    /\ projects[1].winner = projects[1].bidders[1]
    /\ ~projects[1].isActive
    /\ now = MaxTime

\* C30: the amount and the completion time stored for a recorded bid are
\* the values it was submitted with
C30_StoredEqualsSubmitted ==
    \A p \in ProjectIds, c \in Accounts :
        bids[p][c].submitted =>
            /\ bids[p][c].encryptedAmount.plain = bids[p][c].bidAmount
            /\ bids[p][c].encryptedCompletionTime.plain = bids[p][c].completionTime

====
